---- MODULE Spec2Model ----
(***************************************************************************)
(* Model of FolderSynchronizer (folder_sync.py): one-directional periodic  *)
(* synchronisation of a replica directory tree with a source tree.         *)
(*                                                                         *)
(* The file system is one function from absolute paths to node values.     *)
(* A path is a sequence of components; the source root is <<"S">> and the  *)
(* replica root <<"R">>, two disjoint trees.  Under each root the model    *)
(* knows the names f (a file), d (a file or a directory) and d/d (a file). *)
(* A pass of sync_folders is split at the points where the code hands      *)
(* control to the file system: one step per directory the walk yields and  *)
(* one step per file of the inner loops.  External edits of either tree    *)
(* happen while run() sleeps.                                              *)
(***************************************************************************)
EXTENDS Integers, Sequences, FiniteSets, TLC

\* Largest number of external edits in one sleep of the scheduler.
MaxEdits == 1

\* The byte contents a file can have.
Contents == {"hi", "ho"}

\* self.source and self.replica: the two configured roots.
source == <<"S">>
replica == <<"R">>

\* Names a directory listing can return.
Names == {"f", "d"}

\* The relative paths of the universe, and the node kinds allowed there.
RelFiles == {<<"f">>, <<"d">>, <<"d", "d">>}
RelDirs == {<<>>, <<"d">>}
RelPaths == RelFiles \cup RelDirs
AllPaths == {r \o q : r \in {source, replica}, q \in RelPaths}

IsFile(v) == v \in Contents

\* hashlib.md5(...).hexdigest() of the whole content.
hexdigest(c) ==
  CASE c = "hi" -> "49f68a5c8493ec2c0bf489821c21fc3b"
    [] c = "ho" -> "b5d9b59113086d3f9f9f108adaaa9ab5"

\* Path resolution by the operating system: "." components drop out.
Resolve(p) == SelectSeq(p, LAMBDA x : x # ".")

IsPrefix(a, b) == Len(a) <= Len(b) /\ SubSeq(b, 1, Len(a)) = a

\* The node at path p of file system F ("none" when nothing is there).
Node(F, p) == IF Resolve(p) \in DOMAIN F THEN F[Resolve(p)] ELSE "none"

\* os.path.exists
exists(F, p) == Node(F, p) # "none"

\* os.path.join
join(a, b) == a \o b

\* os.path.relpath(path, start) for a path at or below start.
relpath(path, start) ==
  IF path = start THEN <<".">> ELSE SubSeq(path, Len(start) + 1, Len(path))

\* Some proper ancestor of p is a regular file (open, mkdir fail with ENOTDIR).
UnderFile(F, p) ==
  \E i \in 1..(Len(Resolve(p)) - 1) : IsFile(Node(F, SubSeq(Resolve(p), 1, i)))

\* The well-formed file systems: a node exists only inside a directory, and
\* each name holds only the kinds of node the universe allows there.
WellFormed(F) ==
  /\ \A p \in AllPaths :
       /\ Len(p) > 1 /\ F[p] # "none" => F[SubSeq(p, 1, Len(p) - 1)] = "dir"
       /\ F[p] = "dir" => \E r \in {source, replica}, q \in RelDirs : p = r \o q
       /\ IsFile(F[p]) => \E r \in {source, replica}, q \in RelFiles : p = r \o q

FileSystems == {F \in [AllPaths -> {"none", "dir"} \cup Contents] : WellFormed(F)}

\* scandir(top) as os.walk uses it: the directory and file names in top, or
\* a failure (which os.walk ignores) when top is not a directory.
scandir(F, top) ==
  IF Node(F, top) # "dir"
  THEN [ok |-> FALSE, dirs |-> {}, files |-> {}]
  ELSE [ok |-> TRUE,
        dirs |-> {n \in Names : Node(F, top \o <<n>>) = "dir"},
        files |-> {n \in Names : IsFile(Node(F, top \o <<n>>))}]


\* os.makedirs(p): creates p and its missing ancestors; raises when p exists
\* or when an ancestor is a regular file.
makedirs(F, p) ==
  IF exists(F, p) \/ UnderFile(F, p)
  THEN [ok |-> FALSE, fs |-> F]
  ELSE [ok |-> TRUE,
        fs |-> [q \in DOMAIN F |->
                  IF IsPrefix(q, Resolve(p)) /\ F[q] = "none" THEN "dir" ELSE F[q]]]

\* The path shutil.copy2 writes: inside dst when dst is a directory.
CopyTarget(F, src, dst) ==
  IF Node(F, dst) = "dir" THEN dst \o <<src[Len(src)]>> ELSE dst

\* shutil.copy2(src, dst): whole-file copy; raises when src is not a readable
\* file or the target cannot be opened for writing.
copy2(F, src, dst) ==
  LET t == Resolve(CopyTarget(F, src, dst)) IN
  IF \/ ~IsFile(Node(F, src))
     \/ t \notin DOMAIN F
     \/ Node(F, t) = "dir"
     \/ Node(F, SubSeq(t, 1, Len(t) - 1)) # "dir"
  THEN [ok |-> FALSE, fs |-> F]
  ELSE [ok |-> TRUE, fs |-> [F EXCEPT ![t] = Node(F, src)]]

\* shutil.rmtree(p): removes directory p with everything below it.
rmtree(F, p) ==
  IF Node(F, p) # "dir"
  THEN [ok |-> FALSE, fs |-> F]
  ELSE [ok |-> TRUE,
        fs |-> [q \in DOMAIN F |-> IF IsPrefix(Resolve(p), q) THEN "none" ELSE F[q]]]

\* os.remove(p): removes the regular file p; raises when there is none.
remove(F, p) ==
  IF ~IsFile(Node(F, p))
  THEN [ok |-> FALSE, fs |-> F]
  ELSE [ok |-> TRUE, fs |-> [F EXCEPT ![Resolve(p)] = "none"]]

\* The value calculate_md5 returns for a file that is not there.
None == "None"

\* calculate_md5 that reads the file again on every call and overwrites the
\* cached digest.
calculate_md5_Refresh(C, F, file_path) ==
  IF IsFile(Node(F, file_path))
  THEN [ok |-> TRUE, value |-> hexdigest(Node(F, file_path)),
        cache |-> (file_path :> hexdigest(Node(F, file_path))) @@ C]
  ELSE IF Node(F, file_path) = "none" /\ ~UnderFile(F, file_path)
  THEN [ok |-> TRUE, value |-> None, cache |-> C]
  ELSE [ok |-> FALSE, value |-> None, cache |-> C]

\* calculate_md5 that also stores what it returns for a missing file.
calculate_md5_CachesNone(C, F, file_path) ==
  IF file_path \in DOMAIN C
  THEN [ok |-> TRUE, value |-> C[file_path], cache |-> C]
  ELSE IF IsFile(Node(F, file_path))
  THEN [ok |-> TRUE, value |-> hexdigest(Node(F, file_path)),
        cache |-> (file_path :> hexdigest(Node(F, file_path))) @@ C]
  ELSE IF Node(F, file_path) = "none" /\ ~UnderFile(F, file_path)
  THEN [ok |-> TRUE, value |-> None, cache |-> (file_path :> None) @@ C]
  ELSE [ok |-> FALSE, value |-> None, cache |-> C]

\* calculate_md5(file_path) on cache C: the cached digest when the path is a
\* key; None (cache untouched) when open() reports FileNotFoundError; the
\* digest, stored under the path, when the file is read; any other error of
\* open() (a directory, a file among the ancestors) propagates.
calculate_md5(C, F, file_path) ==
  IF file_path \in DOMAIN C
  THEN [ok |-> TRUE, value |-> C[file_path], cache |-> C]
  ELSE IF IsFile(Node(F, file_path))
  THEN [ok |-> TRUE, value |-> hexdigest(Node(F, file_path)),
        cache |-> (file_path :> hexdigest(Node(F, file_path))) @@ C]
  ELSE IF Node(F, file_path) = "none" /\ ~UnderFile(F, file_path)
  THEN [ok |-> TRUE, value |-> None, cache |-> C]
  ELSE [ok |-> FALSE, value |-> None, cache |-> C]


VARIABLES
  fs,         \* the file system: AllPaths -> "none", "dir" or a file content
  md5_cache,  \* self.md5_cache: path -> digest
  logOk,      \* whether the log file can be opened for appending
  log,        \* the records log_operation wrote during the current pass
  pc,         \* where run() is: "root", "fwd", "rev", "done", "sleep", "crashed"
  stack,      \* os.walk: the directories still to be listed
  root,       \* os.walk: the directory whose files are being processed
  files,      \* the files of root not yet processed
  failed,     \* the current pass reached the except clause
  fs0,        \* the file system as it was when the current pass started
  prev,       \* the pass before the current one: "none" (there is none),
              \* "failed", "fresh" (the engine's first pass, which found no
              \* replica root and completed) or "ok" (any other completed pass)
  nEdits,     \* external edits during the last sleep
  lastEdit    \* the last external edit of the last sleep, when it is one
              \* of: a mirrored source file modified ("modify") or deleted
              \* ("remove"), a mirrored directory below the source root
              \* that holds files deleted ("rmtree"); or, during a pass,
              \* the source file that vanished after the walk listed it
              \* ("vanish")

vars == <<fs, md5_cache, logOk, log, pc, stack, root, files, failed, fs0, prev,
          nEdits, lastEdit>>

\* log_operation(message) on the records L of this pass: appends the record,
\* or raises when the log file cannot be opened.
log_operation(L, op, path) ==
  IF logOk
  THEN [ok |-> TRUE, log |-> Append(L, [op |-> op, path |-> path])]
  ELSE [ok |-> FALSE, log |-> L]

\* Results of the pieces of a pass: a file system, a cache and the records
\* written, with ok = FALSE when the piece raised.
Result(ok, F, C, L) == [ok |-> ok, fs |-> F, cache |-> C, log |-> L]

\* Logged with the record written whether or not the action raised.
Logged_Always(act, C, L, op, path) ==
  LET lg == log_operation(L, op, path)
  IN Result(act.ok /\ lg.ok, act.fs, C, lg.log)

\* An action followed by its log record (the record only when the action
\* did not raise).
Logged(act, C, L, op, path) ==
  IF ~act.ok
  THEN Result(FALSE, act.fs, C, L)
  ELSE LET lg == log_operation(L, op, path) IN Result(lg.ok, act.fs, C, lg.log)

\* EnsureReplica with the log record forgotten.
EnsureReplica_Silent(F, C, L) ==
  IF ~exists(F, replica)
  THEN Result(makedirs(F, replica).ok, makedirs(F, replica).fs, C, L)
  ELSE Result(TRUE, F, C, L)

\* Lines 41-43: create the replica root when it does not exist.
EnsureReplica(F, C, L) ==
  IF ~exists(F, replica)
  THEN Logged(makedirs(F, replica), C, L, "Created replica folder", replica)
  ELSE Result(TRUE, F, C, L)

\* MirrorDir that creates the directory without the log record.
MirrorDir_Unlogged(F, C, L, top) ==
  LET relative_path == relpath(top, source)
      replica_root == join(replica, relative_path)
  IN IF ~exists(F, replica_root)
     THEN Result(makedirs(F, replica_root).ok, makedirs(F, replica_root).fs, C, L)
     ELSE Result(TRUE, F, C, L)

\* MirrorDir that creates the mirrored directory only for a source directory
\* that holds files.
MirrorDir_SkipEmpty(F, C, L, top) ==
  LET relative_path == relpath(top, source)
      replica_root == join(replica, relative_path)
  IN IF ~exists(F, replica_root) /\ scandir(F, top).files # {}
     THEN Logged(makedirs(F, replica_root), C, L, "Created folder", replica_root)
     ELSE Result(TRUE, F, C, L)

\* Lines 47-52: the mirrored directory of a source directory the walk yields.
MirrorDir(F, C, L, top) ==
  LET relative_path == relpath(top, source)
      replica_root == join(replica, relative_path)
  IN IF ~exists(F, replica_root)
     THEN Logged(makedirs(F, replica_root), C, L, "Created folder", replica_root)
     ELSE Result(TRUE, F, C, L)

\* MirrorFile with the arguments of copy2 swapped when the digests differ.
MirrorFile_Backwards(F, C, L, top, file) ==
  LET relative_path == relpath(top, source)
      replica_root == join(replica, relative_path)
      source_file == join(top, <<file>>)
      replica_file == join(replica_root, <<file>>)
      m1 == calculate_md5(C, F, source_file)
      m2 == calculate_md5(m1.cache, F, replica_file)
  IN IF ~exists(F, replica_file)
     THEN Logged(copy2(F, source_file, replica_file), C, L,
                 "Copied/Updated file", replica_file)
     ELSE IF ~m1.ok THEN Result(FALSE, F, m1.cache, L)
     ELSE IF ~m2.ok THEN Result(FALSE, F, m2.cache, L)
     ELSE IF m1.value # m2.value
     THEN Logged(copy2(F, replica_file, source_file), m2.cache, L,
                 "Copied/Updated file", replica_file)
     ELSE Result(TRUE, F, m2.cache, L)

\* MirrorFile with the source digest taken before the existence test.
MirrorFile_HashFirst(F, C, L, top, file) ==
  LET relative_path == relpath(top, source)
      replica_root == join(replica, relative_path)
      source_file == join(top, <<file>>)
      replica_file == join(replica_root, <<file>>)
      m1 == calculate_md5(C, F, source_file)
      m2 == calculate_md5(m1.cache, F, replica_file)
  IN IF ~m1.ok THEN Result(FALSE, F, m1.cache, L)
     ELSE IF ~exists(F, replica_file)
     THEN Logged(copy2(F, source_file, replica_file), m1.cache, L,
                 "Copied/Updated file", replica_file)
     ELSE IF ~m2.ok THEN Result(FALSE, F, m2.cache, L)
     ELSE IF m1.value # m2.value
     THEN Logged(copy2(F, source_file, replica_file), m2.cache, L,
                 "Copied/Updated file", replica_file)
     ELSE Result(TRUE, F, m2.cache, L)

\* Lines 55-61: one file of the forward loop.  The existence test comes
\* first; the source digest is taken before the replica digest.
MirrorFile(F, C, L, top, file) ==
  LET relative_path == relpath(top, source)
      replica_root == join(replica, relative_path)
      source_file == join(top, <<file>>)
      replica_file == join(replica_root, <<file>>)
      m1 == calculate_md5(C, F, source_file)
      m2 == calculate_md5(m1.cache, F, replica_file)
  IN IF ~exists(F, replica_file)
     THEN Logged(copy2(F, source_file, replica_file), C, L,
                 "Copied/Updated file", replica_file)
     ELSE IF ~m1.ok THEN Result(FALSE, F, m1.cache, L)
     ELSE IF ~m2.ok THEN Result(FALSE, F, m2.cache, L)
     ELSE IF m1.value # m2.value
     THEN Logged(copy2(F, source_file, replica_file), m2.cache, L,
                 "Copied/Updated file", replica_file)
     ELSE Result(TRUE, F, m2.cache, L)

\* PruneDir that never removes a directory.
PruneDir_Keep(F, C, L, top) == Result(TRUE, F, C, L)

\* Lines 65-70: a replica directory the walk yields whose mirrored source
\* directory is absent is removed with its subtree.
PruneDir(F, C, L, top) ==
  LET relative_path == relpath(top, replica)
      source_root == join(source, relative_path)
  IN IF ~exists(F, source_root)
     THEN Logged(rmtree(F, top), C, L, "Removed folder", top)
     ELSE Result(TRUE, F, C, L)

\* PruneFile that tests the replica file instead of the source file, and so
\* never removes anything.
PruneFile_Keep(F, C, L, top, file) ==
  LET replica_file == join(top, <<file>>)
  IN IF ~exists(F, replica_file)
     THEN Logged(remove(F, replica_file), C, L, "Removed file", replica_file)
     ELSE Result(TRUE, F, C, L)

\* Lines 73-78: one file of the reverse loop.
PruneFile(F, C, L, top, file) ==
  LET relative_path == relpath(top, replica)
      source_root == join(source, relative_path)
      replica_file == join(top, <<file>>)
      source_file == join(source_root, <<file>>)
  IN IF ~exists(F, source_file)
     THEN Logged(remove(F, replica_file), C, L, "Removed file", replica_file)
     ELSE Result(TRUE, F, C, L)

\* The subdirectories os.walk pushes after a directory was processed.
RECURSIVE SetToSeq(_)
SetToSeq(S) ==
  IF S = {} THEN <<>>
  ELSE LET x == CHOOSE y \in S : TRUE IN <<x>> \o SetToSeq(S \ {x})

SubDirs(top, ls) == SetToSeq({top \o <<n>> : n \in ls.dirs})


\* No external edit; an external edit the properties do not single out.
NoEdit == [op |-> "none", rel |-> <<>>]
OtherEdit == [op |-> "other", rel |-> <<>>]

\* FolderSynchronizer(...).run() is entered: the cache is empty, the trees,
\* and the log file's state, are whatever the environment holds.
Init ==
  /\ fs \in FileSystems
  /\ md5_cache = <<>>
  /\ logOk \in BOOLEAN
  /\ log = <<>>
  /\ pc = "root"
  /\ stack = <<>>
  /\ root = <<>>
  /\ files = {}
  /\ failed = FALSE
  /\ fs0 = fs
  /\ prev = "none"
  /\ nEdits = 0
  /\ lastEdit = NoEdit

\* Lines 79-80: the except clause logs the error; when that log_operation
\* raises too, the exception leaves sync_folders and run().
ExceptClause(L) ==
  LET h == log_operation(L, "Error during synchronization", <<>>)
  IN [pc |-> IF h.ok THEN "done" ELSE "crashed", log |-> h.log]

\* Step with the replica restored to its state at the start of the pass when
\* the piece raised.
Step_Rollback(r, pc2, st, rt, fl) ==
  /\ md5_cache' = r.cache
  /\ IF r.ok
     THEN /\ fs' = r.fs
          /\ log' = r.log
          /\ pc' = pc2
          /\ stack' = st
          /\ root' = rt
          /\ files' = fl
          /\ failed' = failed
     ELSE /\ fs' = fs0
          /\ log' = ExceptClause(r.log).log
          /\ pc' = ExceptClause(r.log).pc
          /\ stack' = <<>>
          /\ root' = <<>>
          /\ files' = {}
          /\ failed' = TRUE
  /\ UNCHANGED <<logOk, fs0, prev, nEdits, lastEdit>>

\* A piece of the pass ends: either the pass goes on at pc2 with the walk
\* state given, or the piece raised and the except clause runs.
Step(r, pc2, st, rt, fl) ==
  /\ fs' = r.fs
  /\ md5_cache' = r.cache
  /\ IF r.ok
     THEN /\ log' = r.log
          /\ pc' = pc2
          /\ stack' = st
          /\ root' = rt
          /\ files' = fl
          /\ failed' = failed
     ELSE /\ log' = ExceptClause(r.log).log
          /\ pc' = ExceptClause(r.log).pc
          /\ stack' = <<>>
          /\ root' = <<>>
          /\ files' = {}
          /\ failed' = TRUE
  /\ UNCHANGED <<logOk, fs0, prev, nEdits, lastEdit>>

\* sync_folders, lines 41-43, then the forward os.walk starts at the source.
Begin ==
  /\ pc = "root"
  /\ Step(EnsureReplica(fs, md5_cache, log), "fwd", <<source>>, <<>>, {})

\* Line 46: os.walk lists the next source directory (a directory it cannot
\* list is skipped silently) and lines 47-52 run for it.
FwdVisit ==
  /\ pc = "fwd" /\ files = {} /\ stack # <<>>
  /\ LET top == Head(stack)
         ls == scandir(fs, top)
     IN IF ~ls.ok
        THEN /\ stack' = Tail(stack)
             /\ UNCHANGED <<fs, md5_cache, logOk, log, pc, root, files, failed,
                            fs0, prev, nEdits, lastEdit>>
        ELSE Step(MirrorDir(fs, md5_cache, log, top), "fwd",
                  SubDirs(top, ls) \o Tail(stack), top, ls.files)

\* Lines 54-61 for one file of the directory being processed.
FwdFile ==
  /\ pc = "fwd" /\ files # {}
  /\ \E file \in files :
       Step(MirrorFile(fs, md5_cache, log, root, file), "fwd",
            stack, root, files \ {file})

\* Line 64: the forward walk is exhausted, the reverse walk starts.
StartReverse ==
  /\ pc = "fwd" /\ files = {} /\ stack = <<>>
  /\ pc' = "rev"
  /\ stack' = <<replica>>
  /\ UNCHANGED <<fs, md5_cache, logOk, log, root, files, failed, fs0, prev,
                 nEdits, lastEdit>>

\* Line 64: os.walk lists the next replica directory (skipping one it cannot
\* list) and lines 65-70 run for it.
RevVisit ==
  /\ pc = "rev" /\ files = {} /\ stack # <<>>
  /\ LET top == Head(stack)
         ls == scandir(fs, top)
     IN IF ~ls.ok
        THEN /\ stack' = Tail(stack)
             /\ UNCHANGED <<fs, md5_cache, logOk, log, pc, root, files, failed,
                            fs0, prev, nEdits, lastEdit>>
        ELSE Step(PruneDir(fs, md5_cache, log, top), "rev",
                  SubDirs(top, ls) \o Tail(stack), top, ls.files)

\* Lines 72-78 for one file of the directory being processed.
RevFile ==
  /\ pc = "rev" /\ files # {}
  /\ \E file \in files :
       Step(PruneFile(fs, md5_cache, log, root, file), "rev",
            stack, root, files \ {file})

\* sync_folders returns normally.
Return ==
  /\ pc = "rev" /\ files = {} /\ stack = <<>>
  /\ pc' = "done"
  /\ UNCHANGED <<fs, md5_cache, logOk, log, stack, root, files, failed, fs0,
                 prev, nEdits, lastEdit>>

\* run(), line 86: time.sleep(self.interval) begins.
Sleep ==
  /\ pc = "done"
  /\ pc' = "sleep"
  /\ prev' = IF failed THEN "failed"
              ELSE IF prev = "none" /\ ~exists(fs0, replica) THEN "fresh"
              ELSE "ok"
  /\ log' = <<>>
  /\ failed' = FALSE
  /\ root' = <<>>
  /\ fs0' = fs
  /\ nEdits' = 0
  /\ lastEdit' = NoEdit
  /\ UNCHANGED <<fs, md5_cache, logOk, stack, files>>

\* run(), lines 84-85: the sleep is over and the next pass is called.
Wake ==
  /\ pc = "sleep"
  /\ pc' = "root"
  /\ UNCHANGED <<fs, md5_cache, logOk, log, stack, root, files, failed, fs0,
                 prev, nEdits, lastEdit>>

\* The environment edits a tree while run() sleeps.
Edit(F, edit) ==
  /\ pc = "sleep"
  /\ nEdits < MaxEdits
  /\ fs' = F
  /\ fs0' = F
  /\ nEdits' = nEdits + 1
  /\ lastEdit' = edit
  /\ UNCHANGED <<md5_cache, logOk, log, pc, stack, root, files, failed, prev>>

Parent(p) == SubSeq(p, 1, Len(p) - 1)

\* A file is created, or its content replaced.
EnvWrite ==
  \E side \in {source, replica}, rel \in RelFiles, c \in Contents :
    LET p == side \o rel IN
    /\ fs[Parent(p)] = "dir"
    /\ fs[p] \notin {"dir", c}
    /\ Edit([fs EXCEPT ![p] = c],
            IF side = source /\ IsFile(fs[p]) /\ fs[replica \o rel] = fs[p]
            THEN [op |-> "modify", rel |-> rel] ELSE OtherEdit)

\* A file is deleted.
EnvRemove ==
  \E side \in {source, replica}, rel \in RelFiles :
    LET p == side \o rel IN
    /\ IsFile(fs[p])
    /\ Edit(remove(fs, p).fs,
            IF side = source /\ IsFile(fs[replica \o rel])
            THEN [op |-> "remove", rel |-> rel] ELSE OtherEdit)

\* A directory is created.
EnvMkdir ==
  \E side \in {source, replica}, rel \in RelDirs :
    LET p == side \o rel IN
    /\ fs[p] = "none"
    /\ rel # <<>> => fs[Parent(p)] = "dir"
    /\ Edit(makedirs(fs, p).fs, OtherEdit)

\* A directory is deleted with its subtree.
EnvRmtree ==
  \E side \in {source, replica}, rel \in RelDirs :
    LET p == side \o rel IN
    /\ fs[p] = "dir"
    /\ Edit(rmtree(fs, p).fs,
            IF /\ side = source
               /\ rel # <<>>
               /\ scandir(fs, p).files # {}
               /\ \A q \in RelPaths :
                    IsPrefix(rel, q) => fs[replica \o q] = fs[source \o q]
            THEN [op |-> "rmtree", rel |-> rel] ELSE OtherEdit)

\* The log file becomes unwritable, or writable again.
EnvLog ==
  /\ pc = "sleep"
  /\ logOk' = ~logOk
  /\ UNCHANGED <<fs, md5_cache, log, pc, stack, root, files, failed, fs0, prev,
                 nEdits, lastEdit>>

\* A concurrent process deletes a source file between the moment os.walk
\* listed it and the moment the forward loop reaches it.
RaceVanish ==
  /\ pc = "fwd"
  /\ lastEdit.op # "vanish"
  /\ \E file \in files :
       /\ fs' = remove(fs, join(root, <<file>>)).fs
       /\ lastEdit' = [op |-> "vanish", rel |-> relpath(join(root, <<file>>), source)]
  /\ UNCHANGED <<md5_cache, logOk, log, pc, stack, root, files, failed, fs0,
                 prev, nEdits>>

Next ==
  \/ Begin
  \/ FwdVisit
  \/ FwdFile
  \/ StartReverse
  \/ RevVisit
  \/ RevFile
  \/ Return
  \/ Sleep
  \/ Wake
  \/ EnvWrite
  \/ EnvRemove
  \/ EnvMkdir
  \/ EnvRmtree
  \/ EnvLog

Spec == Init /\ [][Next]_vars

\* The engine next to a process that deletes source files during a pass.
RaceNext ==
  \/ Begin
  \/ FwdVisit
  \/ FwdFile
  \/ StartReverse
  \/ RevVisit
  \/ RevFile
  \/ Return
  \/ Sleep
  \/ Wake
  \/ RaceVanish

RaceSpec == Init /\ [][RaceNext]_vars

\* No path is a file on one side and a directory on the other.
NoTypeMismatch(F) ==
  \A q \in RelPaths \cup {<<>>} :
    /\ ~(IsFile(F[source \o q]) /\ F[replica \o q] = "dir")
    /\ ~(F[source \o q] = "dir" /\ IsFile(F[replica \o q]))

\* run() is entered on a source tree and a replica without such a path.
ConvInit == Init /\ fs[source] = "dir" /\ NoTypeMismatch(fs)

\* The engine alone: run() calls sync_folders and sleeps, for ever, and no
\* other process touches the trees.
ConvNext ==
  \/ Begin
  \/ FwdVisit
  \/ FwdFile
  \/ StartReverse
  \/ RevVisit
  \/ RevFile
  \/ Return
  \/ Sleep
  \/ Wake

\* The interpreter keeps running the loop of run(): a step that can be
\* taken is taken.
ConvSpec == ConvInit /\ [][ConvNext]_vars /\ WF_vars(ConvNext)

TypeOK ==
  /\ fs \in FileSystems
  /\ pc \in {"root", "fwd", "rev", "done", "sleep", "crashed"}
  /\ logOk \in BOOLEAN
  /\ failed \in BOOLEAN
  /\ nEdits \in 0..MaxEdits


(***************************************************************************)
(* Vocabulary of the properties.                                           *)
(***************************************************************************)

\* sync_folders has returned and the except clause was not reached.
Completed == pc = "done" /\ ~failed

\* The path of the mirrored replica file as the forward loop spells it.
ReplicaFileOf(rel) ==
  join(join(replica, relpath(source \o Parent(rel), source)), <<rel[Len(rel)]>>)

\* The number of records of the current pass with the given text and path.
Records(op, path) ==
  Cardinality({i \in 1..Len(log) : log[i] = [op |-> op, path |-> path]})

RecordsOf(op) == Cardinality({i \in 1..Len(log) : log[i].op = op})

\* C1: at the end of every pass that completes without reaching the error
\* handler, every file under the source root has a file with equal content
\* at the mirrored replica path.
C1_ContentConvergence ==
  Completed =>
    \A q \in RelFiles :
      IsFile(fs[source \o q]) => fs[replica \o q] = fs[source \o q]

\* C2: a source file that the replica held with equal content and that was
\* modified during the sleep is copied to the replica by the next pass.
C2_UpdateDetection ==
  Completed /\ lastEdit.op = "modify" =>
    /\ Records("Copied/Updated file", ReplicaFileOf(lastEdit.rel)) >= 1
    /\ fs[replica \o lastEdit.rel] = fs[source \o lastEdit.rel]

\* C3: when a pass completed without error and neither tree changed during
\* the sleep, the next pass creates, copies and removes nothing and writes
\* no log record (stated for an existing source root).
C3_Idempotence ==
  /\ pc = "done"
  /\ prev \in {"ok", "fresh"}
  /\ nEdits = 0
  /\ exists(fs, source)
  => /\ log = <<>>
     /\ fs = fs0
     /\ ~failed


\* C4: at the end of every pass that completes without reaching the error
\* handler, every file and directory under the replica root has an existing
\* mirrored path under the source root.
C4_NoExtraneousReplicaPaths ==
  Completed =>
    \A q \in RelPaths : exists(fs, replica \o q) => exists(fs, source \o q)

\* A completed pass that found, and removed, a replica path without a
\* mirrored source path.
C4_Witness ==
  /\ Completed
  /\ \E q \in RelPaths :
       /\ exists(fs0, replica \o q)
       /\ ~exists(fs0, source \o q)
       /\ ~exists(fs, replica \o q)

\* C5: no step of a pass, successful or failed, creates, changes or deletes
\* a file or directory under the source root.
C5_SourceNeverMutated ==
  pc # "sleep" =>
    \A p \in AllPaths : IsPrefix(source, p) => fs[p] = fs0[p]

\* A failed pass that copied a file and removed a directory before failing.
C5_Witness ==
  /\ pc = "done"
  /\ failed
  /\ RecordsOf("Copied/Updated file") >= 1
  /\ RecordsOf("Removed folder") >= 1

\* C6: after a mirrored source directory that directly contains files was
\* deleted, the next pass removes the mirrored subtree and writes exactly one
\* removal record for it: no per-file removal record, no error record.
C6_DirectoryRemovalCascades ==
  pc = "done" /\ lastEdit.op = "rmtree" =>
    /\ \A q \in RelPaths : IsPrefix(lastEdit.rel, q) => ~exists(fs, replica \o q)
    /\ Records("Removed folder", replica \o lastEdit.rel) = 1
    /\ RecordsOf("Removed file") = 0
    /\ RecordsOf("Error during synchronization") = 0

\* C7: an error raised by any step of a pass, log writes included, is caught
\* inside sync_folders, produces one error record and never leaves
\* sync_folders.
C7_FailureIsolation ==
  /\ pc # "crashed"
  /\ pc = "done" /\ failed => RecordsOf("Error during synchronization") = 1

\* The replica files a pass removed although their mirrored source path
\* exists.
RemovedMirrored ==
  {q \in RelFiles : /\ IsFile(fs0[replica \o q])
                    /\ ~IsFile(fs[replica \o q])
                    /\ exists(fs, source \o q)}

FreshPassDone ==
  /\ Len(log) >= 1
  /\ log[1] = [op |-> "Created replica folder", path |-> replica]
  /\ \A q \in RelDirs \ {<<>>} :
       fs[source \o q] = "dir" =>
         /\ fs[replica \o q] = "dir"
         /\ Records("Created folder", replica \o q) = 1
  /\ \A q \in RelFiles :
       IsFile(fs[source \o q]) =>
         /\ fs[replica \o q] = fs[source \o q]
         /\ Records("Copied/Updated file", ReplicaFileOf(q)) = 1
  /\ Len(log) = 1 + Cardinality({q \in RelPaths \ {<<>>} : exists(fs, source \o q)})

C10_SchedulerAlternation ==
  [][/\ pc \in {"root", "fwd", "rev"} => pc' \in {"root", "fwd", "rev", "done"}
     /\ pc = "done" => pc' = "sleep"
     /\ pc = "sleep" => pc' \in {"sleep", "root"}]_vars


Creations == {"Created replica folder", "Created folder"}
Copies == {"Copied/Updated file"}
Removals == {"Removed folder", "Removed file"}

\* The directory a copy record's file lies in.
DirOfRecord(r) == Parent(Resolve(r.path))

C12_NoWorkInRemovedSubtree ==
  pc = "rev" /\ exists(fs, source) =>
    /\ files # {} => exists(fs, root)
    /\ \A i \in 1..Len(stack) : exists(fs, stack[i])


\* The forward loop is about to process, or has just processed, the file
\* that vanished.
VanishedPending ==
  /\ lastEdit.op = "vanish"
  /\ pc = "fwd"
  /\ root = source \o Parent(lastEdit.rel)
  /\ lastEdit.rel[Len(lastEdit.rel)] \in files

\* C13: when a source file the forward walk listed is deleted before the
\* loop reaches it, processing it copies nothing, writes no record and does
\* not reach the error handler: the pass goes on with the remaining files.
C13_TransientReadRace ==
  [][VanishedPending /\ Cardinality(files) = 1 /\ files' # files
       => /\ pc' = "fwd"
          /\ ~failed'
          /\ fs' = fs
          /\ log' = log]_vars


ErrorRecord == [op |-> "Error during synchronization", path |-> <<>>]

\* C14: once a step of a pass raises, the pass creates, copies and removes
\* nothing more and what it had applied stays in place; the one thing it may
\* still write is the error record, which then is the last record of the
\* pass.
C14_FailedPassStops ==
  /\ [](failed =>
          /\ pc \in {"done", "crashed"}
          /\ RecordsOf("Error during synchronization") <= 1
          /\ pc = "done" => Len(log) >= 1 /\ log[Len(log)] = ErrorRecord)
  /\ [][/\ failed => fs' = fs /\ md5_cache' = md5_cache /\ pc' = "sleep"
        /\ ~failed /\ failed' /\ logOk =>
             /\ fs' = fs
             /\ log' = Append(log, ErrorRecord)]_vars

\* A pass that failed after it had changed the replica and written records.
C14_Witness ==
  /\ pc = "done"
  /\ failed
  /\ fs # fs0
  /\ Len(log) >= 3
  /\ log[Len(log)] = ErrorRecord


\* One step of a pass, seen from outside: the paths whose node changed and
\* the record the step appended match, one successful action to one record.
StepLogged ==
  LET changed == {p \in AllPaths : fs'[p] # fs[p]}
      r == log'[Len(log')]
      t == Resolve(r.path)
  IN /\ Len(log') \in {Len(log), Len(log) + 1}
     /\ SubSeq(log', 1, Len(log)) = log
     /\ changed # {} =>
          Len(log') = Len(log) + 1 /\ r.op \in Creations \cup Copies \cup Removals
     /\ Len(log') = Len(log) + 1 =>
          /\ r.op \in Creations =>
               fs[t] = "none" /\ fs'[t] = "dir" /\ changed = {t}
          /\ r.op \in Copies =>
               \E rel \in RelFiles :
                 LET w == Resolve(CopyTarget(fs, source \o rel, r.path))
                 IN /\ r.path = ReplicaFileOf(rel)
                    /\ IsFile(fs[source \o rel])
                    /\ fs'[w] = fs[source \o rel]
                    /\ changed \subseteq {w}
          /\ r.op = "Removed folder" =>
               /\ fs[t] = "dir"
               /\ changed = {q \in AllPaths : IsPrefix(t, q) /\ fs[q] # "none"}
               /\ \A q \in changed : fs'[q] = "none"
          /\ r.op = "Removed file" =>
               IsFile(fs[t]) /\ fs'[t] = "none" /\ changed = {t}

HashedPaths ==
  {join(source, rel) : rel \in RelFiles} \cup {ReplicaFileOf(rel) : rel \in RelFiles}

\* open(p) reports FileNotFoundError.
Missing(F, p) == Node(F, p) = "none" /\ ~UnderFile(F, p)

\* C16 (as amended): calculate_md5(path) returns the cached fingerprint when
\* the path is in the cache, whether or not the file is still there;
\* otherwise it computes the fingerprint and stores it only when the file
\* could be opened.  A call on a missing file whose path is not in the cache
\* returns 'no fingerprint' and leaves the cache unchanged, so a later call
\* on the same path after the file appears returns that file's fingerprint.
C16_CacheGet ==
  \A p \in HashedPaths :
    LET r == calculate_md5(md5_cache, fs, p)
    IN /\ p \in DOMAIN md5_cache =>
            r.ok /\ r.value = md5_cache[p] /\ r.cache = md5_cache
       /\ p \notin DOMAIN md5_cache /\ IsFile(Node(fs, p)) =>
            /\ r.ok
            /\ r.value = hexdigest(Node(fs, p))
            /\ DOMAIN r.cache = DOMAIN md5_cache \cup {p}
            /\ r.cache[p] = r.value
            /\ \A q \in DOMAIN md5_cache : r.cache[q] = md5_cache[q]
       /\ p \notin DOMAIN md5_cache /\ ~IsFile(Node(fs, p)) =>
            r.cache = md5_cache
       /\ p \notin DOMAIN md5_cache /\ Missing(fs, p) =>
            /\ r.ok
            /\ r.value = None
            /\ \A c \in Contents :
                 LET later == calculate_md5(r.cache, [fs EXCEPT ![Resolve(p)] = c], p)
                 IN later.ok /\ later.value = hexdigest(c)

\* C16 as stated: every call on a missing file returns 'no fingerprint' and
\* leaves the cache unchanged, and a later call after the file appears
\* returns that file's fingerprint.
C16_CacheGetAsStated ==
  \A p \in HashedPaths :
    LET r == calculate_md5(md5_cache, fs, p)
    IN Missing(fs, p) =>
         /\ r.ok
         /\ r.value = None
         /\ r.cache = md5_cache
         /\ \A c \in Contents :
              calculate_md5(r.cache, [fs EXCEPT ![Resolve(p)] = c], p).value
                = hexdigest(c)

\* The cache holds the digest of a file that is gone, and another hashed
\* path is missing and not cached.
C16_Witness ==
  /\ \E p \in DOMAIN md5_cache : Missing(fs, p)
  /\ \E q \in HashedPaths \ DOMAIN md5_cache : Missing(fs, q)


\* C17: over the whole life of an engine instance, across any number of
\* passes, a path once present in the fingerprint cache is never removed and
\* its cached fingerprint never changes, even when the file at that path is
\* overwritten by a copy, modified externally or deleted.
C17_CacheMonotonic ==
  [][\A p \in DOMAIN md5_cache :
       p \in DOMAIN md5_cache' /\ md5_cache'[p] = md5_cache[p]]_vars

\* A second or later pass has ended with the cache still holding, for some
\* file, a digest that is not the digest of the file's content, and, for
\* some other path, the digest of a file that is gone.
C17_Witness ==
  /\ pc = "done"
  /\ prev # "none"
  /\ \E p \in DOMAIN md5_cache :
       IsFile(Node(fs, p)) /\ md5_cache[p] # hexdigest(Node(fs, p))
  /\ \E p \in DOMAIN md5_cache : Node(fs, p) = "none"


\* What one step of the forward loop did for `file` of the directory `root`,
\* against the existence test and the two fingerprints the cache returns in
\* the state before the step.
CopyDecision(file) ==
  LET source_file == join(root, <<file>>)
      replica_file == join(join(replica, relpath(root, source)), <<file>>)
      m1 == calculate_md5(md5_cache, fs, source_file)
      m2 == calculate_md5(m1.cache, fs, replica_file)
      cp == copy2(fs, source_file, replica_file)
      record == [op |-> "Copied/Updated file", path |-> replica_file]
      decided == \/ ~exists(fs, replica_file)
                 \/ m1.ok /\ m2.ok /\ m1.value # m2.value
  IN /\ files' = files \ {file} \/ failed'
     /\ decided =>
          /\ fs' = cp.fs
          /\ IF cp.ok /\ logOk
             THEN log' = Append(log, record) /\ ~failed'
             ELSE failed'
     /\ ~decided =>
          /\ fs' = fs
          /\ \/ log' = log /\ ~failed' /\ m1.ok /\ m2.ok
             \/ failed' /\ ~(m1.ok /\ m2.ok)
     /\ ~exists(fs, replica_file) => md5_cache' = md5_cache
     /\ exists(fs, replica_file) /\ m1.ok /\ m2.ok =>
          {source_file, replica_file} \subseteq DOMAIN md5_cache'

\* C18: a source file is copied in the forward pass exactly when its
\* mirrored replica path does not exist or the two fingerprints returned by
\* the cache differ; when the mirrored replica path does not exist, neither
\* path is fingerprinted, so the cache gains no entry in that step.
C18_ShortCircuitCopy ==
  [][(pc = "fwd" /\ files # {}) => \E file \in files : CopyDecision(file)]_vars

\* A first pass has completed that copied one file because the replica had
\* none (neither path fingerprinted) and one because the digests differed.
C18_Witness ==
  /\ Completed
  /\ prev = "none"
  /\ \E r1, r2 \in RelFiles :
       /\ fs0[replica \o r1] = "none"
       /\ IsFile(fs0[source \o r1])
       /\ join(source, r1) \notin DOMAIN md5_cache
       /\ Records("Copied/Updated file", ReplicaFileOf(r1)) = 1
       /\ IsFile(fs0[replica \o r2])
       /\ IsFile(fs0[source \o r2])
       /\ fs0[replica \o r2] # fs0[source \o r2]
       /\ join(source, r2) \in DOMAIN md5_cache
       /\ Records("Copied/Updated file", ReplicaFileOf(r2)) = 1


\* C19 (as amended): at the end of every pass that completes without
\* reaching the error handler, every directory under the source root, empty
\* or not, exists as a directory at the mirrored replica path, provided the
\* replica did not hold a file at that path when the pass started.
C19_SourceDirsMirrored ==
  Completed =>
    \A q \in RelDirs :
      fs[source \o q] = "dir" /\ ~IsFile(fs0[replica \o q])
        => fs[replica \o q] = "dir"

\* C19 as stated: the same, including when the replica initially holds a
\* file at that path.
C19_SourceDirsMirroredAsStated ==
  Completed =>
    \A q \in RelDirs : fs[source \o q] = "dir" => fs[replica \o q] = "dir"

\* A completed pass created the mirror of an empty source directory.
C19_Witness ==
  /\ Completed
  /\ fs[source \o <<"d">>] = "dir"
  /\ fs[source \o <<"d", "d">>] = "none"
  /\ fs0[replica \o <<"d">>] = "none"
  /\ fs[replica \o <<"d">>] = "dir"


\* The replica's path set and file contents equal the source's.
InSync == \A q \in RelPaths : fs[replica \o q] = fs[source \o q]

\* C20: with an empty cache at start, a source tree that never changes, no
\* external replica edits and no path that is a file on one side and a
\* directory on the other, repeated passes by run() eventually reach a state
\* where the replica equals the source, and every later state at a pass
\* boundary keeps that equality.
C20_EventualConvergence ==
  /\ <>InSync
  /\ <>[](pc = "done" => InSync)

====
